---- MODULE Spec2Model ----
(***************************************************************************)
(* Model of the parallel treasury balance aggregation of pocketknife       *)
(* (src/pocketknife/cli.py): the `treasury` command, the loader and the    *)
(* address validator, the five query_*_parallel fetchers and the query     *)
(* adapters get_*_balance / get_*_rewards.                                 *)
(*                                                                         *)
(* Amounts: the code turns an integer upokt amount into POKT by dividing   *)
(* by 1_000_000.  The model carries every POKT amount as its exact number  *)
(* of millionths (the numerator of amount / 1_000_000).                    *)
(***************************************************************************)
EXTENDS Integers, Sequences, FiniteSets, TLC

VARIABLES
    file,             \* what --file names: [kind, data]
    max_workers,      \* --max-workers
    pc,               \* position of treasury(): start, collect, unwind, render, exit
    exit_code,        \* process exit code, -1 while the command runs
    report,           \* what the validator printed: [array, dups, cross]
    treasury_data,    \* the dict load_treasury_addresses returned
    futures,          \* treasury(): categories submitted, in submission order
    cat_queue,        \* work queue of category_executor (FIFO)
    fstate,           \* per category fetcher: none, queued, running, returned, raised
    results,          \* per category fetcher: the success map (address -> record)
    failed,           \* per category fetcher: the failure list of <<address, error>>
    completed_count,  \* per category fetcher: the progress counter
    lock,             \* per category fetcher: 0 when free, else the index of the holder
    wstate,           \* per category, per task: pending, querying, waiting, counted, done
    wres,             \* per category, per task: what the adapter returned (locals)
    answers,          \* per category, per task: what pocketd answered to each call
    calls,            \* per category, per task: the pocketd calls issued, in order
    inserted,         \* per category fetcher: the keys of results, in insertion order
    bundle,           \* per category: the dict the fetcher returned
    collected,        \* treasury(): results[category], the bundles collected so far
    grand_total,      \* treasury(): the grand total rendered, -1 before
    queries           \* number of external pocketd calls issued so far

vars == <<file, max_workers, pc, exit_code, report, treasury_data, futures,
          cat_queue, fstate, results, failed, completed_count, lock, wstate,
          wres, answers, calls, inserted, bundle, collected, grand_total, queries>>

fetchVars == <<fstate, results, failed, completed_count, lock, wstate, wres, answers,
               calls, inserted, bundle>>

-----------------------------------------------------------------------------
(* Bounds of the model *)

NAddr == 2          \* number of distinct addresses a file may use
MaxTotal == 4       \* total number of address entries in a file
MaxWorkers == 2     \* --max-workers ranges over 0..MaxWorkers
MaxAmt == 1         \* upokt amounts an external answer may carry: 0..MaxAmt
MaxLoaded == 2      \* total number of items in a file with keys of any shape
MaxNonList == 1     \* number of keys of such a file whose value is not a list

(* Program constants *)

OuterWorkers == 4   \* ThreadPoolExecutor(max_workers=4) as category_executor

Addr == 1..NAddr

Cats == <<"liquid", "app_stakes", "node_stakes", "validator_stakes", "delegator_stakes">>

CatSet == {Cats[k] : k \in 1..Len(Cats)}

NoData == [c \in CatSet |-> <<>>]

-----------------------------------------------------------------------------
(* Input files: every dataset of at most MaxTotal entries over Addr.         *)
(* Addresses are opaque keys (the program only compares them), so one dataset *)
(* per renaming of the addresses is enough: the one whose addresses appear in *)
(* increasing order of first use, category by category, entry by entry.       *)

Max(S) == IF S = {} THEN 0 ELSE CHOOSE x \in S : \A y \in S : y <= x

Min2(a, b) == IF a <= b THEN a ELSE b

(* the address sequences of length n in increasing order of first use *)
RECURSIVE FirstUseSeqs(_)
FirstUseSeqs(n) ==
    IF n = 0 THEN {<<>>}
    ELSE UNION {{Append(s, a) : a \in 1..Min2(NAddr, Max({s[i] : i \in 1..Len(s)}) + 1)} :
                    s \in FirstUseSeqs(n - 1)}

(* the ways to cut total entries into n lists: tuples of n lengths *)
RECURSIVE Cuts(_, _)
Cuts(n, total) ==
    IF n = 0 THEN (IF total = 0 THEN {<<>>} ELSE {})
    ELSE UNION {{<<k>> \o t : t \in Cuts(n - 1, total - k)} : k \in 0..total}

RECURSIVE Before(_, _)
Before(cut, k) == IF k = 1 THEN 0 ELSE cut[k - 1] + Before(cut, k - 1)

Split(flat, cut) ==
    [c \in {Cats[k] : k \in 1..Len(Cats)} |->
        LET k == CHOOSE j \in 1..Len(Cats) : Cats[j] = c
        IN  SubSeq(flat, Before(cut, k) + 1, Before(cut, k) + cut[k])]

DatasetsUpTo(total) ==
    UNION {{Split(flat, cut) : flat \in FirstUseSeqs(n), cut \in Cuts(Len(Cats), n)} :
              n \in 0..total}

Datasets == DatasetsUpTo(MaxTotal)

FileKinds == {"absent", "missing", "badjson", "notobject", "object"}

(* The JSON value under each key of the object: a list, no such key, or a    *)
(* value that is not a list: a string (its items are its characters), an    *)
(* object (its items are its keys), or a scalar (a number, true, false or   *)
(* null, which has no len()).  `data` holds the items.                      *)
Shapes == {"list", "absent", "string", "object", "scalar"}

ListShape == [c \in CatSet |-> "list"]

JsonFile(d, sh) == [kind |-> "object", data |-> d, shape |-> sh]

Files == {[kind |-> k, data |-> NoData, shape |-> ListShape] : k \in FileKinds \ {"object"}}
            \cup {JsonFile(d, ListShape) : d \in Datasets}

-----------------------------------------------------------------------------
(* validate_and_deduplicate_addresses *)

Range(s) == {s[i] : i \in 1..Len(s)}

Count(s, a) == Cardinality({i \in 1..Len(s) : s[i] = a})

HasDuplicates(addresses) == Len(addresses) # Cardinality(Range(addresses))

UniqueDuplicates(addresses) == {a \in Range(addresses) : Count(addresses, a) > 1}

(* the first array, in the order of the loop, that holds a repeated address; 0 if none *)
FirstDupArray(data) ==
    IF \E k \in 1..Len(Cats) : HasDuplicates(data[Cats[k]])
    THEN CHOOSE k \in 1..Len(Cats) :
            /\ HasDuplicates(data[Cats[k]])
            /\ \A j \in 1..(k - 1) : ~HasDuplicates(data[Cats[j]])
    ELSE 0

(* the lines "<dup> appears <n> times" printed for one array *)
DupLines(addresses) == {<<a, Count(addresses, a)>> : a \in UniqueDuplicates(addresses)}

(* the (array_name, addr) pairs in the order the cross-array loop visits them *)
RECURSIVE VisitOrder(_, _)
VisitOrder(data, k) ==
    IF k > Len(Cats) THEN <<>>
    ELSE [i \in 1..Len(data[Cats[k]]) |-> <<Cats[k], data[Cats[k]][i]>>]
            \o VisitOrder(data, k + 1)

(* the loop body: all_addresses and conflicts after visiting the first n pairs *)
RECURSIVE ConflictsAfter(_, _)
ConflictsAfter(visit, n) ==
    IF n = 0 THEN [all_addresses |-> {}, conflicts |-> <<>>]
    ELSE LET prev == ConflictsAfter(visit, n - 1)
             array_name == visit[n][1]
             addr == visit[n][2]
         IN  IF addr \in prev.all_addresses
             THEN [prev EXCEPT !.conflicts[addr] = Append(@, array_name)]
             ELSE [all_addresses |-> prev.all_addresses \cup {addr},
                   conflicts |-> (addr :> <<array_name>>) @@ prev.conflicts]

Conflicts(data) ==
    LET visit == VisitOrder(data, 1) IN ConflictsAfter(visit, Len(visit)).conflicts

(* fault: an address counts as shared only from its third array on *)
CrossDuplicatesFromThird(data) ==
    LET conflicts == Conflicts(data)
        multi == {a \in DOMAIN conflicts : Len(conflicts[a]) > 2}
    IN  [a \in multi |-> conflicts[a]]

CrossDuplicates(data) ==
    LET conflicts == Conflicts(data)
        multi == {a \in DOMAIN conflicts : Len(conflicts[a]) > 1}
    IN  [a \in multi |-> conflicts[a]]

NoReport == [array |-> "", dups |-> {}, cross |-> <<>>]

(* fault: the cross-array check is skipped *)
ValidateWithoutCrossCheck(data) ==
    LET k == FirstDupArray(data)
    IN  IF k # 0
        THEN [exit |-> 1, data |-> NoData,
              report |-> [array |-> Cats[k], dups |-> DupLines(data[Cats[k]]),
                          cross |-> <<>>]]
        ELSE [exit |-> 0, data |-> data, report |-> NoReport]

(* fault: an accepted dataset comes back with every list reversed *)
ValidateReverses(data) ==
    LET k == FirstDupArray(data)
        cross == CrossDuplicates(data)
        reversed(l) == [i \in 1..Len(l) |-> l[Len(l) + 1 - i]]
    IN  IF k # 0
        THEN [exit |-> 1, data |-> NoData,
              report |-> [array |-> Cats[k], dups |-> DupLines(data[Cats[k]]),
                          cross |-> <<>>]]
        ELSE IF DOMAIN cross # {}
        THEN [exit |-> 1, data |-> NoData,
              report |-> [array |-> "", dups |-> {}, cross |-> cross]]
        ELSE [exit |-> 0, data |-> [c \in DOMAIN data |-> reversed(data[c])],
              report |-> NoReport]

(* the result: accepted with the data returned, or typer.Exit(1) after the report *)
validate_and_deduplicate_addresses(data) ==
    LET k == FirstDupArray(data)
        cross == CrossDuplicates(data)
    IN  IF k # 0
        THEN [exit |-> 1, data |-> NoData,
              report |-> [array |-> Cats[k], dups |-> DupLines(data[Cats[k]]),
                          cross |-> <<>>]]
        ELSE IF DOMAIN cross # {}
        THEN [exit |-> 1, data |-> NoData,
              report |-> [array |-> "", dups |-> {}, cross |-> cross]]
        ELSE [exit |-> 0, data |-> data, report |-> NoReport]

(* load_treasury_addresses: json.load, the structure check, then the validator *)
(* the keys the structure check of load_treasury_addresses goes through *)
CheckedKeys == {"liquid", "app_stakes", "node_stakes", "validator_stakes"}

(* fault: a missing key is an error *)
LoadRequiresKeys(f) ==
    IF f.kind # "object" \/ (\E key \in CatSet : f.shape[key] # "list")
    THEN [exit |-> 1, data |-> NoData, report |-> NoReport]
    ELSE validate_and_deduplicate_addresses(f.data)

(* A missing key of CheckedKeys is set to [], any other value that is not a  *)
(* list raises ValueError.  In the validator, data.get(key, []) gives [] for *)
(* a missing key; len() of a scalar raises TypeError when the first loop     *)
(* reaches it, that is, unless an earlier array had duplicates.  A string    *)
(* or an object goes through as the collection of its items.                 *)
load_treasury_addresses(f) ==
    LET rejected == [exit |-> 1, data |-> NoData, report |-> NoReport]
    IN  IF f.kind = "badjson" THEN rejected
        ELSE IF f.kind = "notobject" THEN rejected
        ELSE IF \E key \in CheckedKeys : f.shape[key] \notin {"absent", "list"}
        THEN rejected
        ELSE IF \E key \in CatSet : f.shape[key] = "scalar"
        THEN (IF FirstDupArray(f.data) # 0
              THEN validate_and_deduplicate_addresses(f.data)
              ELSE rejected)
        ELSE validate_and_deduplicate_addresses(f.data)

-----------------------------------------------------------------------------
(* The external program.  One pocketd call answers with one of:             *)
(*   ok       exit 0, JSON with the expected field, carrying amt upokt      *)
(*   nofield  exit 0, a JSON object without the expected field              *)
(*   nonzero  exit code # 0, with stderr                                    *)
(*   timeout  subprocess.TimeoutExpired                                     *)
(*   badjson  exit 0, stdout is not JSON                                    *)

Response(kind, amt, stderr) == [kind |-> kind, amt |-> amt, stderr |-> stderr]

Responses ==
    {Response("ok", n, "") : n \in 0..MaxAmt}
        \cup {Response(k, 0, "") : k \in {"nofield", "timeout", "badjson"}}
        \cup {Response("nonzero", 0, e) : e \in {"", "rpc error"}}

(* Python's `a or b` on strings *)
OrElse(a, b) == IF a # "" THEN a ELSE b

(* upokt / 1_000_000, carried as the number of millionths of a POKT *)
ToPokt(upokt) == upokt

Ret3(value, success, error) == [value |-> value, success |-> success, error |-> error]

get_liquid_balance(r) ==
    CASE r.kind = "nonzero" -> Ret3(0, FALSE, OrElse(r.stderr, "Unknown error"))
      [] r.kind = "ok"      -> Ret3(ToPokt(r.amt), TRUE, "")
      [] r.kind = "nofield" -> Ret3(ToPokt(0), TRUE, "")
      [] r.kind = "timeout" -> Ret3(0, FALSE, "Query timeout")
      [] r.kind = "badjson" -> Ret3(0, FALSE, "Invalid JSON response")

Ret(liquid, staked, rewards, success, error) ==
    [liquid |-> liquid, staked |-> staked, rewards |-> rewards,
     success |-> success, error |-> error]

(* fault: an address succeeds only when its stake query succeeds too *)
StakeBalanceNeedsStake(lr, sr, noStake, label) ==
    LET liq == get_liquid_balance(lr)
    IN  IF sr.kind = "ok"
        THEN Ret(liq.value, ToPokt(sr.amt), 0, liq.success \/ (ToPokt(sr.amt) > 0),
                 liq.error)
        ELSE Ret(0, 0, 0, FALSE, noStake)

(* get_app_stake_balance and get_node_stake_balance differ in their messages only *)
StakeBalance(lr, sr, noStake, label) ==
    LET liq == get_liquid_balance(lr)
        fallback(msg, failmsg) ==
            IF liq.success THEN Ret(liq.value, 0, 0, TRUE, msg)
            ELSE Ret(0, 0, 0, FALSE, failmsg)
    IN  CASE sr.kind = "nonzero" -> fallback(noStake, OrElse(liq.error, noStake))
          [] sr.kind = "nofield" -> fallback(noStake, OrElse(liq.error, noStake))
          [] sr.kind = "ok" ->
                LET pokt_staked == ToPokt(sr.amt)
                    success == liq.success \/ (pokt_staked > 0)
                IN  Ret(liq.value, pokt_staked, 0, success,
                        IF success THEN "" ELSE OrElse(liq.error, "No balances found"))
          [] sr.kind = "timeout" -> fallback(label \o " stake query timeout", "Query timeout")
          [] sr.kind = "badjson" ->
                fallback("Invalid " \o label \o " stake JSON response", "Invalid JSON response")

get_node_stake_balance(lr, sr) == StakeBalance(lr, sr, "No node stake found", "Node")

get_app_stake_balance(lr, sr) == StakeBalance(lr, sr, "No app stake found", "App")

(* the answer to `pocketd debug addr`: "ok" prints a 'Bech32 Acc:' line *)
get_validator_account_address(r) ==
    CASE r.kind = "nonzero" -> Ret3("", FALSE, OrElse(r.stderr, "Failed to convert address"))
      [] r.kind = "ok"      -> Ret3("acc", TRUE, "")
      [] r.kind = "timeout" -> Ret3("", FALSE, "Address conversion timeout")
      [] OTHER              -> Ret3("", FALSE, "Could not find Bech32 Acc address in output")

get_delegator_rewards(r) ==
    CASE r.kind = "nonzero" -> Ret3(0, TRUE, "")
      [] r.kind = "nofield" -> Ret3(0, TRUE, "")
      [] r.kind = "ok"      -> Ret3(ToPokt(r.amt), TRUE, "")
      [] r.kind = "timeout" -> Ret3(0, FALSE, "Delegator rewards query timeout")
      [] r.kind = "badjson" -> Ret3(0, FALSE, "Invalid delegator rewards JSON response")

get_delegator_stake_balance(lr, rr) ==
    LET liq == get_liquid_balance(lr)
        del == get_delegator_rewards(rr)
        success == liq.success \/ del.success
    IN  Ret(liq.value, 0, del.value, success,
            IF success THEN ""
            ELSE "Liquid: " \o OrElse(liq.error, "Unknown error")
                    \o "; Delegator: " \o OrElse(del.error, "Unknown error"))

get_validator_outstanding_rewards(r) ==
    CASE r.kind = "nonzero" -> Ret3(0, TRUE, "")
      [] r.kind = "nofield" -> Ret3(0, TRUE, "")
      [] r.kind = "ok"      -> Ret3(ToPokt(r.amt), TRUE, "")
      [] r.kind = "timeout" -> Ret3(0, FALSE, "Validator outstanding rewards query timeout")
      [] r.kind = "badjson" ->
            Ret3(0, FALSE, "Invalid validator outstanding rewards JSON response")

(* fault: the lookups go on after a failed address conversion *)
ValidatorBalanceIgnoresConversion(cr, lr, rr, sr) ==
    LET liq == get_liquid_balance(lr)
        val == get_validator_outstanding_rewards(rr)
    IN  Ret(liq.value, IF sr.kind = "ok" THEN ToPokt(sr.amt) ELSE 0, val.value,
            liq.success \/ val.success, "")

get_validator_stake_balance(cr, lr, rr, sr) ==
    LET acc == get_validator_account_address(cr)
        liq == get_liquid_balance(lr)
        val == get_validator_outstanding_rewards(rr)
        partial(msg) == Ret(liq.value, 0, val.value, liq.success \/ val.success, msg)
    IN  IF ~acc.success
        THEN Ret(0, 0, 0, FALSE, "Address conversion failed: " \o acc.error)
        ELSE CASE sr.kind = "nonzero" -> partial("No validator stake found")
               [] sr.kind = "nofield" -> partial("No validator stake found")
               [] sr.kind = "ok" /\ sr.amt = 0 -> partial("No validator stake found")
               [] sr.kind = "ok" /\ sr.amt # 0 ->
                    LET pokt_staked == ToPokt(sr.amt)
                        success == liq.success \/ (pokt_staked > 0) \/ val.success
                    IN  Ret(liq.value, pokt_staked, val.value, success,
                            IF success THEN "" ELSE "No balances found")
               [] sr.kind = "timeout" -> partial("Validator stake query timeout")
               [] sr.kind = "badjson" -> partial("Invalid validator stake JSON response")

-----------------------------------------------------------------------------
(* The chain during one run: every address has a fixed liquid balance, stake *)
(* and reward (distinct powers of two, so that a sum tells which amounts it  *)
(* holds); a call of the run answers with that amount or times out.         *)

RECURSIVE Pow2(_)
Pow2(n) == IF n = 0 THEN 1 ELSE 2 * Pow2(n - 1)

ChainLiquid(a) == Pow2(a - 1)

ChainStaked(a) == Pow2(NAddr + a - 1)

ChainRewards(a) == Pow2(2 * NAddr + a - 1)

RunAnswers(amt) ==
    {Response("ok", amt, ""), Response("timeout", 0, "")}

(* One pocketd call: the query, and the argument it is issued on: the        *)
(* adapter's own `address` or the `account_address` the conversion printed.  *)
Call(query, on) == [query |-> query, on |-> on]

BankBalances(on) == Call("query bank balances", on)

(* the calls of each adapter, in the order it issues them *)
CallsOf(c) ==
    CASE c = "liquid" -> <<BankBalances("address")>>
      [] c = "app_stakes" ->
            <<BankBalances("address"), Call("query application show-application", "address")>>
      [] c = "node_stakes" ->
            <<BankBalances("address"), Call("query supplier show-supplier", "address")>>
      [] c = "delegator_stakes" ->
            <<BankBalances("address"), Call("query distribution rewards", "address")>>
      [] c = "validator_stakes" ->
            <<Call("debug addr", "address"), BankBalances("account_address"),
              Call("query distribution validator-outstanding-rewards", "address"),
              Call("query staking validator", "address")>>

(* fault: a call that timed out first is issued again *)
RunRetriesTimeout(c, x, n, ret) ==
    [calls |-> IF x[1].kind = "timeout"
               THEN <<CallsOf(c)[1]>> \o SubSeq(CallsOf(c), 1, n)
               ELSE SubSeq(CallsOf(c), 1, n),
     answers |-> SubSeq(x, 1, n), ret |-> ret]

(* One run of the category's adapter: the calls it issued, the answers to    *)
(* them, in order, and what it returned.  L, S, R, C are the possible        *)
(* answers to the liquid, stake, rewards and address-conversion calls.       *)
Run(c, x, n, ret) ==
    [calls |-> SubSeq(CallsOf(c), 1, n), answers |-> SubSeq(x, 1, n), ret |-> ret]

Liquid1(lr) ==
    LET liq == get_liquid_balance(lr)
    IN  Run("liquid", <<lr>>, 1, Ret(liq.value, 0, 0, liq.success, liq.error))

AdapterRunsOver(c, L, S, R, C) ==
    CASE c = "liquid" -> {Liquid1(lr) : lr \in L}
      [] c = "app_stakes" ->
            {Run(c, x, 2, get_app_stake_balance(x[1], x[2])) : x \in L \X S}
      [] c = "node_stakes" ->
            {Run(c, x, 2, get_node_stake_balance(x[1], x[2])) : x \in L \X S}
      [] c = "delegator_stakes" ->
            {Run(c, x, 2, get_delegator_stake_balance(x[1], x[2])) : x \in L \X R}
      [] c = "validator_stakes" ->
            {Run(c, x, IF get_validator_account_address(x[1]).success THEN 4 ELSE 1,
                 get_validator_stake_balance(x[1], x[2], x[3], x[4])) :
                x \in C \X L \X R \X S}

(* `pocketd debug addr` during the run: it prints the 'Bech32 Acc:' line     *)
(* ("ok"), prints something else ("nofield"), exits non-zero or times out    *)
ConversionAnswers ==
    {Response("ok", 0, ""), Response("nofield", 0, ""), Response("timeout", 0, ""),
     Response("nonzero", 0, "rpc error")}

(* the runs of the adapter for address a against the chain: the node either  *)
(* answers every query about the address, after a conversion that may fail   *)
(* (`pocketd debug addr` does not go to the node), or answers none of them   *)
AdapterRuns(c, a) ==
    LET down == {Response("timeout", 0, "")}
    IN  AdapterRunsOver(c, {Response("ok", ChainLiquid(a), "")},
                        {Response("ok", ChainStaked(a), "")},
                        {Response("ok", ChainRewards(a), "")}, ConversionAnswers)
            \cup AdapterRunsOver(c, down, down, down, {Response("ok", 0, "")})

(* the runs of the adapter against every answer of the external program *)
AdapterProbes(c) == AdapterRunsOver(c, Responses, Responses, Responses, Responses)

-----------------------------------------------------------------------------
(* query_*_parallel: the five fetchers *)

(* the value stored under results[address] *)
RecordOf(c, ret) ==
    CASE c = "liquid" -> ret.liquid
      [] c \in {"app_stakes", "node_stakes"} ->
            [liquid |-> ret.liquid, staked |-> ret.staked,
             total |-> ret.liquid + ret.staked]
      [] c = "delegator_stakes" ->
            [liquid |-> ret.liquid, delegator_rewards |-> ret.rewards,
             total |-> ret.liquid + ret.rewards]
      [] c = "validator_stakes" ->
            [liquid |-> ret.liquid, staked |-> ret.staked,
             validator_rewards |-> ret.rewards,
             total |-> ret.liquid + ret.staked + ret.rewards]

(* sum(f.values()) *)
RECURSIVE Sum(_)
Sum(f) ==
    IF DOMAIN f = {} THEN 0
    ELSE LET x == CHOOSE y \in DOMAIN f : TRUE
         IN  f[x] + Sum([y \in DOMAIN f \ {x} |-> f[y]])

(* fault: the combined total leaves the rewards out *)
BundleWithoutRewards(c, res, fl) ==
    LET field(name) == Sum([a \in DOMAIN res |-> res[a][name]])
    IN  CASE c = "liquid" ->
                [results |-> res, failed |-> fl, total_balance |-> Sum(res)]
          [] c \in {"app_stakes", "node_stakes"} ->
                [results |-> res, failed |-> fl,
                 total_liquid |-> field("liquid"), total_staked |-> field("staked"),
                 total_combined |-> field("liquid") + field("staked")]
          [] c = "delegator_stakes" ->
                [results |-> res, failed |-> fl,
                 total_liquid |-> field("liquid"),
                 total_delegator_rewards |-> field("delegator_rewards"),
                 total_combined |-> field("liquid")]
          [] c = "validator_stakes" ->
                [results |-> res, failed |-> fl,
                 total_liquid |-> field("liquid"), total_staked |-> field("staked"),
                 total_validator_rewards |-> field("validator_rewards"),
                 total_combined |-> field("liquid") + field("staked")]

(* the dict a fetcher returns *)
BundleOf(c, res, fl) ==
    LET field(name) == Sum([a \in DOMAIN res |-> res[a][name]])
    IN  CASE c = "liquid" ->
                [results |-> res, failed |-> fl, total_balance |-> Sum(res)]
          [] c \in {"app_stakes", "node_stakes"} ->
                [results |-> res, failed |-> fl,
                 total_liquid |-> field("liquid"), total_staked |-> field("staked"),
                 total_combined |-> field("total")]
          [] c = "delegator_stakes" ->
                [results |-> res, failed |-> fl,
                 total_liquid |-> field("liquid"),
                 total_delegator_rewards |-> field("delegator_rewards"),
                 total_combined |-> field("total")]
          [] c = "validator_stakes" ->
                [results |-> res, failed |-> fl,
                 total_liquid |-> field("liquid"), total_staked |-> field("staked"),
                 total_validator_rewards |-> field("validator_rewards"),
                 total_combined |-> field("total")]

NoBundle == [results |-> <<>>, failed |-> <<>>]

addresses(c) == treasury_data[c]

Tasks(c) == 1..Len(wstate[c])

(* tasks a pool thread is busy with: picked up and not yet returned *)
InFlight(c) == {i \in Tasks(c) : wstate[c][i] \in {"querying", "waiting", "counted"}}

(* fault: a thread of the outer pool is not given back when its fetcher returns *)
BusyForever == {c \in CatSet : fstate[c] \in {"running", "returned"}}

Busy == {c \in CatSet : fstate[c] = "running"}

(* a thread of category_executor takes the next fetcher off the queue; the  *)
(* fetcher sets up its state, builds its pool and submits one task per      *)
(* address; ThreadPoolExecutor raises ValueError when max_workers <= 0      *)
PoolAccepts(width) == width > 0

StartFetcher(c) ==
    /\ cat_queue # <<>> /\ Head(cat_queue) = c
    /\ Cardinality(Busy) < OuterWorkers
    /\ cat_queue' = Tail(cat_queue)
    /\ results' = [results EXCEPT ![c] = <<>>]
    /\ failed' = [failed EXCEPT ![c] = <<>>]
    /\ completed_count' = [completed_count EXCEPT ![c] = 0]
    /\ lock' = [lock EXCEPT ![c] = 0]
    /\ inserted' = [inserted EXCEPT ![c] = <<>>]
    /\ IF PoolAccepts(max_workers)
       THEN /\ fstate' = [fstate EXCEPT ![c] = "running"]
            /\ wstate' = [wstate EXCEPT ![c] = [i \in 1..Len(addresses(c)) |-> "pending"]]
       ELSE /\ fstate' = [fstate EXCEPT ![c] = "raised"]
            /\ wstate' = wstate
    /\ UNCHANGED <<file, max_workers, pc, exit_code, report, treasury_data, futures,
                   wres, answers, calls, bundle, collected, grand_total, queries>>

(* fault: the pool starts a thread for every submitted task *)
PoolAlwaysHasRoom(c) == TRUE

(* a pool thread picks up the next task: at most max_workers threads, FIFO *)
PoolHasRoom(c) == Cardinality(InFlight(c)) < max_workers

StartTask(c, i) ==
    /\ fstate[c] = "running"
    /\ i \in Tasks(c) /\ wstate[c][i] = "pending"
    /\ \A j \in 1..(i - 1) : wstate[c][j] # "pending"
    /\ PoolHasRoom(c)
    /\ wstate' = [wstate EXCEPT ![c][i] = "querying"]
    /\ UNCHANGED <<file, max_workers, pc, exit_code, report, treasury_data, futures,
                   cat_queue, fstate, results, failed, completed_count, lock,
                   wres, answers, calls, inserted, bundle, collected, grand_total, queries>>

(* query_single_*: the adapter call, outside the lock *)
QueryWith(c, i, runs) ==
    /\ i \in Tasks(c) /\ wstate[c][i] = "querying"
    /\ \E run \in runs :
        /\ wres' = [wres EXCEPT ![c] = (i :> run.ret) @@ @]
        /\ answers' = [answers EXCEPT ![c] = (i :> run.answers) @@ @]
        /\ calls' = [calls EXCEPT ![c] = (i :> run.calls) @@ @]
        /\ queries' = queries + Len(run.answers)
    /\ wstate' = [wstate EXCEPT ![c][i] = "waiting"]
    /\ UNCHANGED <<file, max_workers, pc, exit_code, report, treasury_data, futures,
                   cat_queue, fstate, results, failed, completed_count, lock,
                   inserted, bundle, collected, grand_total>>

QueryTask(c, i) == QueryWith(c, i, AdapterRuns(c, addresses(c)[i]))

ProbeTask(c, i) == QueryWith(c, i, AdapterProbes(c))

(* fault: the counter is bumped without taking the lock *)
LockIgnored(c) == TRUE

(* with lock: completed_count += 1 *)
LockFree(c) == lock[c] = 0

CountTask(c, i) ==
    /\ i \in Tasks(c) /\ wstate[c][i] = "waiting"
    /\ LockFree(c)
    /\ lock' = [lock EXCEPT ![c] = i]
    /\ completed_count' = [completed_count EXCEPT ![c] = @ + 1]
    /\ wstate' = [wstate EXCEPT ![c][i] = "counted"]
    /\ UNCHANGED <<file, max_workers, pc, exit_code, report, treasury_data, futures,
                   cat_queue, fstate, results, failed, wres, answers, calls, inserted,
                   bundle, collected, grand_total, queries>>

(* fault: a failure is counted but not listed *)
RecordedDropsFailure(c, address, ret, res, fl) ==
    IF ret.success
    THEN [results |-> (address :> RecordOf(c, ret)) @@ res, failed |-> fl]
    ELSE [results |-> res, failed |-> fl]

(* fault: a failure resets the success map of its category *)
RecordedFailureResets(c, address, ret, res, fl) ==
    IF ret.success
    THEN [results |-> (address :> RecordOf(c, ret)) @@ res, failed |-> fl]
    ELSE [results |-> <<>>, failed |-> Append(fl, <<address, ret.error>>)]

(* fault: a failure replaces the failures listed before it *)
RecordedKeepsLastFailure(c, address, ret, res, fl) ==
    IF ret.success
    THEN [results |-> (address :> RecordOf(c, ret)) @@ res, failed |-> fl]
    ELSE [results |-> res, failed |-> <<<<address, ret.error>>>>]

(* still under the lock: results[address] = ... or failed.append(...), then release *)
Recorded(c, address, ret, res, fl) ==
    IF ret.success
    THEN [results |-> (address :> RecordOf(c, ret)) @@ res, failed |-> fl]
    ELSE [results |-> res, failed |-> Append(fl, <<address, ret.error>>)]

RecordTask(c, i) ==
    /\ i \in Tasks(c) /\ wstate[c][i] = "counted"
    /\ LET new == Recorded(c, addresses(c)[i], wres[c][i], results[c], failed[c])
       IN  /\ results' = [results EXCEPT ![c] = new.results]
           /\ failed' = [failed EXCEPT ![c] = new.failed]
    /\ inserted' = [inserted EXCEPT ![c] =
                        IF wres[c][i].success THEN Append(@, addresses(c)[i]) ELSE @]
    /\ lock' = [lock EXCEPT ![c] = 0]
    /\ wstate' = [wstate EXCEPT ![c][i] = "done"]
    /\ UNCHANGED <<file, max_workers, pc, exit_code, report, treasury_data, futures,
                   cat_queue, fstate, completed_count, wres, answers, calls, bundle,
                   collected, grand_total, queries>>

(* fault: the fetcher returns as soon as one task is done *)
FirstTaskDone(c) == \E i \in Tasks(c) : wstate[c][i] = "done"

(* every future of as_completed has a result; the pool shuts down; return *)
AllTasksDone(c) == \A i \in Tasks(c) : wstate[c][i] = "done"

ReturnFetcher(c) ==
    /\ fstate[c] = "running"
    /\ AllTasksDone(c)
    /\ bundle' = [bundle EXCEPT ![c] = BundleOf(c, results[c], failed[c])]
    /\ fstate' = [fstate EXCEPT ![c] = "returned"]
    /\ UNCHANGED <<file, max_workers, pc, exit_code, report, treasury_data, futures,
                   cat_queue, results, failed, completed_count, lock, wstate, wres, answers,
                   calls, inserted, collected, grand_total, queries>>

-----------------------------------------------------------------------------
(* treasury() *)

RECURSIVE NonEmptyFrom(_, _)
NonEmptyFrom(data, k) ==
    IF k > Len(Cats) THEN <<>>
    ELSE (IF data[Cats[k]] # <<>> THEN <<Cats[k]>> ELSE <<>>) \o NonEmptyFrom(data, k + 1)

(* fault: a fetcher is submitted for every category *)
ScheduledAll(data) == Cats

(* the categories treasury() submits, in order *)
Scheduled(data) == NonEmptyFrom(data, 1)

(* from the option check to the last submit *)
TreasuryBegin ==
    /\ pc = "start"
    /\ IF file.kind \in {"absent", "missing"}
       THEN /\ exit_code' = 1 /\ pc' = "exit"
            /\ UNCHANGED <<report, treasury_data, futures, cat_queue, fstate>>
       ELSE LET loaded == load_treasury_addresses(file)
            IN  IF loaded.exit # 0
                THEN /\ exit_code' = loaded.exit /\ pc' = "exit"
                     /\ report' = loaded.report
                     /\ UNCHANGED <<treasury_data, futures, cat_queue, fstate>>
                ELSE /\ treasury_data' = loaded.data
                     /\ futures' = Scheduled(loaded.data)
                     /\ cat_queue' = Scheduled(loaded.data)
                     /\ fstate' = [c \in CatSet |->
                                     IF loaded.data[c] # <<>> THEN "queued" ELSE "none"]
                     /\ pc' = "collect"
                     /\ UNCHANGED <<exit_code, report>>
    /\ UNCHANGED <<file, max_workers, results, failed, completed_count, lock, wstate,
                   wres, answers, calls, inserted, bundle, collected, grand_total, queries>>

(* for category in futures: results[category] = futures[category].result() *)
NextToCollect == futures[Cardinality(collected) + 1]

CollectBundle ==
    /\ pc = "collect"
    /\ Cardinality(collected) < Len(futures)
    /\ fstate[NextToCollect] = "returned"
    /\ collected' = collected \cup {NextToCollect}
    /\ UNCHANGED <<file, max_workers, pc, exit_code, report, treasury_data, futures,
                   cat_queue, fetchVars, grand_total, queries>>

(* .result() re-raises what the fetcher raised; the with block then waits   *)
(* for the other fetchers before the exception leaves treasury()            *)
CollectRaises ==
    /\ pc = "collect"
    /\ Cardinality(collected) < Len(futures)
    /\ fstate[NextToCollect] = "raised"
    /\ pc' = "unwind"
    /\ UNCHANGED <<file, max_workers, exit_code, report, treasury_data, futures,
                   cat_queue, fetchVars, collected, grand_total, queries>>

AllFetchersOver == \A c \in CatSet : fstate[c] \in {"none", "returned", "raised"}

Crash ==
    /\ pc = "unwind"
    /\ AllFetchersOver
    /\ exit_code' = 1
    /\ pc' = "exit"
    /\ UNCHANGED <<file, max_workers, report, treasury_data, futures, cat_queue,
                   fetchVars, collected, grand_total, queries>>

(* the five tables and the summary *)
CategoryTotal(c) ==
    IF treasury_data[c] # <<>> /\ c \in collected
    THEN IF c = "liquid" THEN bundle[c].total_balance ELSE bundle[c].total_combined
    ELSE 0

(* fault: the summary leaves the delegator category out *)
GrandTotalWithoutDelegators ==
    CategoryTotal("liquid") + CategoryTotal("app_stakes") + CategoryTotal("node_stakes")
        + CategoryTotal("validator_stakes")

GrandTotal ==
    CategoryTotal("liquid") + CategoryTotal("app_stakes") + CategoryTotal("node_stakes")
        + CategoryTotal("validator_stakes") + CategoryTotal("delegator_stakes")

Render ==
    /\ pc = "collect"
    /\ Cardinality(collected) = Len(futures)
    /\ AllFetchersOver
    /\ grand_total' = GrandTotal
    /\ exit_code' = 0
    /\ pc' = "exit"
    /\ UNCHANGED <<file, max_workers, report, treasury_data, futures, cat_queue,
                   fetchVars, collected, queries>>

-----------------------------------------------------------------------------

(* the state when the command starts, for a file and a width of the given sets *)
InitFrom(files, widths) ==
    /\ file \in files
    /\ max_workers \in widths
    /\ pc = "start"
    /\ exit_code = -1
    /\ report = NoReport
    /\ treasury_data = NoData
    /\ futures = <<>>
    /\ cat_queue = <<>>
    /\ fstate = [c \in CatSet |-> "none"]
    /\ results = [c \in CatSet |-> <<>>]
    /\ failed = [c \in CatSet |-> <<>>]
    /\ completed_count = [c \in CatSet |-> 0]
    /\ lock = [c \in CatSet |-> 0]
    /\ wstate = [c \in CatSet |-> <<>>]
    /\ wres = [c \in CatSet |-> <<>>]
    /\ answers = [c \in CatSet |-> <<>>]
    /\ calls = [c \in CatSet |-> <<>>]
    /\ inserted = [c \in CatSet |-> <<>>]
    /\ bundle = [c \in CatSet |-> NoBundle]
    /\ collected = {}
    /\ grand_total = -1
    /\ queries = 0

Init == InitFrom(Files, 0..MaxWorkers)

Next ==
    \/ TreasuryBegin
    \/ \E c \in CatSet : StartFetcher(c)
    \/ \E c \in CatSet : \E i \in 1..MaxTotal : StartTask(c, i)
    \/ \E c \in CatSet : \E i \in 1..MaxTotal : QueryTask(c, i)
    \/ \E c \in CatSet : \E i \in 1..MaxTotal : CountTask(c, i)
    \/ \E c \in CatSet : \E i \in 1..MaxTotal : RecordTask(c, i)
    \/ \E c \in CatSet : ReturnFetcher(c)
    \/ CollectBundle
    \/ CollectRaises
    \/ Crash
    \/ Render

Spec == Init /\ [][Next]_vars

-----------------------------------------------------------------------------
(* The adapters against every answer of the external program: a run of the  *)
(* command over a file with one address, whose calls may be answered in any *)
(* way.                                                                      *)

OneAddressFiles ==
    {JsonFile([NoData EXCEPT ![c] = <<1>>], ListShape) : c \in CatSet}

InitAdapter ==
    /\ Init
    /\ file \in OneAddressFiles
    /\ max_workers = 1

NextAdapter ==
    \/ TreasuryBegin
    \/ \E c \in CatSet : StartFetcher(c)
    \/ \E c \in CatSet : StartTask(c, 1)
    \/ \E c \in CatSet : ProbeTask(c, 1)
    \/ \E c \in CatSet : CountTask(c, 1)
    \/ \E c \in CatSet : RecordTask(c, 1)
    \/ \E c \in CatSet : ReturnFetcher(c)
    \/ CollectBundle
    \/ Render

SpecAdapter == InitAdapter /\ [][NextAdapter]_vars

-----------------------------------------------------------------------------
(* The orchestrator over files that give every category of a chosen set one  *)
(* address of its own (the k-th category holds address k), up to all five    *)
(* categories at once, with one worker per category pool (or none).          *)

CatIndex(c) == CHOOSE k \in 1..Len(Cats) : Cats[k] = c

OnePerCategoryFiles ==
    {JsonFile([c \in CatSet |-> IF c \in S THEN <<CatIndex(c)>> ELSE <<>>], ListShape) :
        S \in SUBSET CatSet}

InitCategories == InitFrom(OnePerCategoryFiles, {0, 1})

(* the chain answers every call of the run, except that the liquid query may *)
(* time out                                                                  *)
AnsweredRuns(c, a) ==
    AdapterRunsOver(c, RunAnswers(ChainLiquid(a)), {Response("ok", ChainStaked(a), "")},
                    {Response("ok", ChainRewards(a), "")}, {Response("ok", 0, "")})

AnsweredTask(c, i) == QueryWith(c, i, AnsweredRuns(c, addresses(c)[i]))

NextCategories ==
    \/ TreasuryBegin
    \/ \E c \in CatSet : StartFetcher(c)
    \/ \E c \in CatSet : StartTask(c, 1)
    \/ \E c \in CatSet : AnsweredTask(c, 1)
    \/ \E c \in CatSet : CountTask(c, 1)
    \/ \E c \in CatSet : RecordTask(c, 1)
    \/ \E c \in CatSet : ReturnFetcher(c)
    \/ CollectBundle
    \/ CollectRaises
    \/ Crash
    \/ Render

SpecCategories == InitCategories /\ [][NextCategories]_vars

-----------------------------------------------------------------------------
(* The command over files whose keys may be missing or hold a value that is  *)
(* not a list, one worker per category pool.  A missing key and a scalar     *)
(* have no items; the keys of an object are distinct.                        *)

NonListKeys(sh) == {c \in CatSet : sh[c] \notin {"list", "absent"}}

ShapeSet == {sh \in [CatSet -> Shapes] : Cardinality(NonListKeys(sh)) <= MaxNonList}

ShapesFor(d) ==
    {sh \in ShapeSet :
        /\ \A c \in CatSet : sh[c] \in {"absent", "scalar"} => d[c] = <<>>
        /\ \A c \in CatSet : sh[c] = "object" => ~HasDuplicates(d[c])}

InitLoader ==
    /\ \E d \in DatasetsUpTo(MaxLoaded) : \E sh \in ShapesFor(d) : file = JsonFile(d, sh)
    /\ InitFrom({file}, {1})

NextLoader ==
    \/ TreasuryBegin
    \/ \E c \in CatSet : StartFetcher(c)
    \/ \E c \in CatSet : \E i \in 1..MaxLoaded : StartTask(c, i)
    \/ \E c \in CatSet : \E i \in 1..MaxLoaded : AnsweredTask(c, i)
    \/ \E c \in CatSet : \E i \in 1..MaxLoaded : CountTask(c, i)
    \/ \E c \in CatSet : \E i \in 1..MaxLoaded : RecordTask(c, i)
    \/ \E c \in CatSet : ReturnFetcher(c)
    \/ CollectBundle
    \/ Render

SpecLoader == InitLoader /\ [][NextLoader]_vars

-----------------------------------------------------------------------------
(* Vocabulary of the properties *)

FailedAddresses(fl) == {fl[k][1] : k \in 1..Len(fl)}

DoneTasks(c) == {i \in Tasks(c) : wstate[c][i] = "done"}

(* a dataset breaks the rules of the address set *)
Repeats(list) == \E i, j \in 1..Len(list) : i # j /\ list[i] = list[j]

CategoriesOf(data, a) == {c \in CatSet : a \in Range(data[c])}

Shared(data) == {a \in Addr : Cardinality(CategoriesOf(data, a)) >= 2}

InvalidDataset(data) == (\E c \in CatSet : Repeats(data[c])) \/ Shared(data) # {}

(* the file is missing, is not parseable, or fails validation *)
BadFile ==
    \/ file.kind \in {"absent", "missing", "badjson", "notobject"}
    \/ file.kind = "object" /\ InvalidDataset(file.data)

-----------------------------------------------------------------------------
(* C1: the bundle a fetcher returns holds exactly one outcome per address of *)
(* its input list: the keys of 'results' and the addresses of 'failed' are   *)
(* disjoint, together they are the input list, and no address is listed      *)
(* twice, whatever the pool width and the order in which the workers finish. *)
C1_ExactlyOneOutcomePerAddress ==
    \A c \in CatSet :
        fstate[c] = "returned" =>
            LET ok == DOMAIN bundle[c].results
                ko == FailedAddresses(bundle[c].failed)
            IN  /\ ok \cap ko = {}
                /\ ok \cup ko = Range(addresses(c))
                /\ Cardinality(ok) + Len(bundle[c].failed) = Len(addresses(c))

C1_Witness ==
    \E c \in CatSet :
        /\ fstate[c] = "returned"
        /\ Len(addresses(c)) >= 2 /\ max_workers >= 2
        /\ DOMAIN bundle[c].results # {} /\ bundle[c].failed # <<>>

(* C2: failure isolation.  The outcome recorded for an address is a function *)
(* of that address's own adapter result alone (so two runs that differ in    *)
(* the adapter result of another address record the same outcome for it),    *)
(* and a query error neither ends the run nor cancels a sibling: once a      *)
(* query was issued the run never fails, and it ends with every address of   *)
(* every scheduled category recorded.                                        *)
C2_FailureIsolation ==
    /\ \A c \in CatSet : \A i \in DoneTasks(c) :
            LET a == addresses(c)[i]
                r == wres[c][i]
            IN  IF r.success
                THEN /\ a \in DOMAIN results[c]
                     /\ results[c][a] = RecordOf(c, r)
                     /\ a \notin FailedAddresses(failed[c])
                ELSE /\ a \notin DOMAIN results[c]
                     /\ \E k \in 1..Len(failed[c]) : failed[c][k] = <<a, r.error>>
    /\ queries > 0 =>
            /\ exit_code # 1 /\ pc # "unwind"
            /\ \A c \in CatSet : fstate[c] # "raised"
    /\ (queries > 0 /\ pc = "exit") =>
            \A c \in CatSet : DoneTasks(c) = 1..Len(addresses(c))

C2_Witness ==
    /\ pc = "exit" /\ exit_code = 0
    /\ \E c \in CatSet : \E i, j \in DoneTasks(c) :
            /\ ~wres[c][i].success /\ wres[c][i].error = "Query timeout"
            /\ wres[c][j].success
            /\ addresses(c)[j] \in DOMAIN bundle[c].results

(* C3: success map, failure list and counter move together.  Whenever no     *)
(* worker holds the category lock, completed_count = |results| + |failed|    *)
(* and it counts exactly the tasks whose outcome is recorded; it is N when   *)
(* the fetcher returns.                                                      *)
C3_CounterMatchesRecorded ==
    \A c \in CatSet :
        /\ lock[c] = 0 =>
                /\ completed_count[c] = Cardinality(DOMAIN results[c]) + Len(failed[c])
                /\ completed_count[c] = Cardinality(DoneTasks(c))
        /\ fstate[c] = "returned" => completed_count[c] = Len(addresses(c))

C3_Witness ==
    \E c \in CatSet :
        /\ lock[c] = 0 /\ completed_count[c] = 1
        /\ \E i \in Tasks(c) : wstate[c][i] = "waiting"
        /\ max_workers >= 2

-----------------------------------------------------------------------------
(* what the validator printed about array c and address a *)
ReportedRepeat(c, a, n) == report.array = c /\ <<a, n>> \in report.dups

ReportedShared(a) == a \in DOMAIN report.cross

Validated == pc = "exit" /\ file.kind = "object"

(* C4 (as stated): whenever a category list holds an address more than once, *)
(* the dataset is rejected with exit code 1 and every repeated address of    *)
(* that category is reported with its exact number of occurrences.           *)
C4_RepeatsReportedWithCount ==
    Validated =>
        \A c \in CatSet : Repeats(file.data[c]) =>
            /\ exit_code = 1
            /\ \A a \in Range(file.data[c]) :
                    Count(file.data[c], a) > 1 =>
                        /\ ReportedRepeat(c, a, Count(file.data[c], a))
                        /\ \A n \in 0..MaxTotal :
                                ReportedRepeat(c, a, n) => n = Count(file.data[c], a)

(* C5: for a dataset without repeats inside a category, an address that is   *)
(* in two or more categories makes the validator reject with exit code 1,    *)
(* and the report lists exactly those addresses, each with the names of all  *)
(* the categories it is in, each name once.                                  *)
C5_SharedReportedWithCategories ==
    (Validated /\ ~(\E c \in CatSet : Repeats(file.data[c]))) =>
        /\ Shared(file.data) # {} => exit_code = 1
        /\ DOMAIN report.cross = Shared(file.data)
        /\ \A a \in DOMAIN report.cross :
                /\ Range(report.cross[a]) = CategoriesOf(file.data, a)
                /\ Len(report.cross[a]) = Cardinality(CategoriesOf(file.data, a))

C5_Witness ==
    /\ Validated /\ exit_code = 1
    /\ ~(\E c \in CatSet : Repeats(file.data[c]))
    /\ \E a, b \in Addr :
            /\ Cardinality(CategoriesOf(file.data, a)) >= 3
            /\ Cardinality(CategoriesOf(file.data, b)) = 1
            /\ a \in DOMAIN report.cross

(* C6 (as stated): the validator reports all violations of a dataset before  *)
(* rejecting: the repeats of every category that has some, and every address *)
(* that is in more than one category.                                        *)
C6_AllViolationsReported ==
    Validated =>
        /\ \A c \in CatSet : \A a \in Range(file.data[c]) :
                Count(file.data[c], a) > 1 => \E n \in 2..MaxTotal : ReportedRepeat(c, a, n)
        /\ \A a \in Shared(file.data) : ReportedShared(a)

-----------------------------------------------------------------------------
(* C7: validation precedes every query.  When the file is missing, is not    *)
(* parseable or fails validation, the command ends at once with a non-zero   *)
(* exit code: no fetcher is ever submitted or started and no external call   *)
(* is ever issued.                                                           *)
C7_NoQueryOnBadFile ==
    BadFile =>
        /\ pc \in {"start", "exit"}
        /\ pc = "exit" => exit_code = 1
        /\ queries = 0
        /\ futures = <<>> /\ cat_queue = <<>>
        /\ \A c \in CatSet : fstate[c] = "none" /\ wstate[c] = <<>>

C7_Witness ==
    /\ pc = "exit" /\ exit_code = 1 /\ queries = 0
    /\ file.kind = "object" /\ Shared(file.data) # {}
    /\ ~(\E c \in CatSet : Repeats(file.data[c]))

(* C8 (as stated): a dataset that passes validation always gets its report   *)
(* and exit code 0, whatever addresses fail; the exit code is 1 exactly when *)
(* the file is missing, is not parseable or fails validation.                *)
C8_ExitCodeOneOnlyOnBadFile ==
    pc = "exit" =>
        /\ exit_code = 1 <=> BadFile
        /\ ~BadFile => exit_code = 0 /\ grand_total >= 0

-----------------------------------------------------------------------------
(* what the answers say, read without the adapters *)
StakedUpokt(sr) == IF sr.kind = "ok" THEN sr.amt ELSE 0

LiquidSucceeded(lr) == lr.kind \in {"ok", "nofield"}

LiquidUpokt(lr) == IF lr.kind = "ok" THEN lr.amt ELSE 0

(* C9: composite success of app_stake and node_stake.  For every pair of     *)
(* answers to the liquid and the stake query the address is a success iff    *)
(* the liquid query succeeded or the staked amount is > 0, a failure         *)
(* otherwise; when the stake query fails or reports no stake and liquid      *)
(* succeeded with L, the record is liquid = L, staked = 0, total = L.        *)
C9_CompositeSuccess ==
    \A c \in {"app_stakes", "node_stakes"} : \A i \in DoneTasks(c) :
        LET a == addresses(c)[i]
            lr == answers[c][i][1]
            sr == answers[c][i][2]
        IN  /\ a \in DOMAIN results[c] <=> (LiquidSucceeded(lr) \/ StakedUpokt(sr) > 0)
            /\ a \in FailedAddresses(failed[c])
                    <=> ~(LiquidSucceeded(lr) \/ StakedUpokt(sr) > 0)
            /\ (LiquidSucceeded(lr) /\ StakedUpokt(sr) = 0) =>
                    results[c][a] = [liquid |-> LiquidUpokt(lr), staked |-> 0,
                                     total |-> LiquidUpokt(lr)]

C9_Witness ==
    \E c \in {"app_stakes", "node_stakes"} : \E i \in DoneTasks(c) :
        /\ answers[c][i][1].kind = "ok" /\ answers[c][i][1].amt = MaxAmt
        /\ answers[c][i][2].kind = "nonzero"
        /\ results[c][addresses(c)[i]] = [liquid |-> MaxAmt, staked |-> 0, total |-> MaxAmt]

(* C10 (as stated): a reward query that fails is not a reward of 0.  A       *)
(* delegator whose liquid query fails and whose reward query exits non-zero  *)
(* is recorded as a failure; so is a validator whose liquid query fails,     *)
(* whose reward query exits non-zero and which has no stake.                 *)
C10_FailedRewardQueryIsFailure ==
    /\ \A i \in DoneTasks("delegator_stakes") :
            LET an == answers["delegator_stakes"][i]
            IN  (~LiquidSucceeded(an[1]) /\ an[2].kind = "nonzero") =>
                    addresses("delegator_stakes")[i]
                        \in FailedAddresses(failed["delegator_stakes"])
    /\ \A i \in DoneTasks("validator_stakes") :
            LET an == answers["validator_stakes"][i]
            IN  (Len(an) = 4 /\ ~LiquidSucceeded(an[2]) /\ an[3].kind = "nonzero"
                    /\ StakedUpokt(an[4]) = 0) =>
                    addresses("validator_stakes")[i]
                        \in FailedAddresses(failed["validator_stakes"])

-----------------------------------------------------------------------------
(* a reward query succeeded: exit code 0 and a JSON answer, with or without *)
(* rewards in it                                                             *)
RewardSucceeded(rr) == rr.kind \in {"ok", "nofield"}

RewardUpokt(rr) == IF rr.kind = "ok" THEN rr.amt ELSE 0

(* tasks whose adapter has run *)
Queried(c) == {i \in Tasks(c) : wstate[c][i] \in {"waiting", "counted", "done"}}

(* C11 (as stated): get_delegator_stake_balance issues the liquid and the    *)
(* reward query whatever the liquid query answered; for every pair of        *)
(* answers the address is a success iff at least one of the two queries      *)
(* succeeded, and the recorded total is liquid + delegator_rewards.          *)
C11_DelegatorEitherQuerySucceeds ==
    \A i \in DoneTasks("delegator_stakes") :
        LET c == "delegator_stakes"
            a == addresses(c)[i]
            lr == answers[c][i][1]
            rr == answers[c][i][2]
        IN  /\ calls[c][i] = <<BankBalances("address"),
                               Call("query distribution rewards", "address")>>
            /\ a \in DOMAIN results[c] <=> (LiquidSucceeded(lr) \/ RewardSucceeded(rr))
            /\ a \in FailedAddresses(failed[c])
                    <=> ~(LiquidSucceeded(lr) \/ RewardSucceeded(rr))
            /\ a \in DOMAIN results[c] =>
                    /\ results[c][a].liquid = LiquidUpokt(lr)
                    /\ results[c][a].delegator_rewards = RewardUpokt(rr)
                    /\ results[c][a].total = LiquidUpokt(lr) + RewardUpokt(rr)

(* the conversion call printed no account address *)
ConversionFailed(cr) == cr.kind # "ok"

(* C12: address-conversion failure is fatal for a validator address.  When   *)
(* `pocketd debug addr` exits non-zero, times out or prints no 'Bech32 Acc:' *)
(* line, the adapter returns a failure with all amounts 0 and the conversion *)
(* is the only call issued for the address, which ends in the failure list.  *)
(* Its siblings are unaffected: every validator whose conversion succeeded   *)
(* gets its four calls, and is recorded with its own liquid balance when its *)
(* liquid query answered.                                                    *)
C12_ConversionFailureIsFatal ==
    LET c == "validator_stakes"
    IN  \A i \in Queried(c) :
            LET a == addresses(c)[i]
                an == answers[c][i]
                r == wres[c][i]
            IN  IF ConversionFailed(an[1])
                THEN /\ calls[c][i] = <<Call("debug addr", "address")>>
                     /\ Len(an) = 1
                     /\ ~r.success
                     /\ r.liquid = 0 /\ r.staked = 0 /\ r.rewards = 0
                     /\ i \in DoneTasks(c) =>
                            /\ a \in FailedAddresses(failed[c])
                            /\ a \notin DOMAIN results[c]
                ELSE /\ Len(calls[c][i]) = 4 /\ Len(an) = 4
                     /\ (i \in DoneTasks(c) /\ an[2].kind = "ok") =>
                            /\ a \in DOMAIN results[c]
                            /\ results[c][a].liquid = ChainLiquid(a)

C12_Witness ==
    LET c == "validator_stakes"
    IN  /\ pc = "exit" /\ exit_code = 0
        /\ \E i, j \in DoneTasks(c) :
                /\ answers[c][i][1].kind = "nonzero"
                /\ addresses(c)[i] \in FailedAddresses(failed[c])
                /\ answers[c][j][1].kind = "ok" /\ answers[c][j][2].kind = "ok"
                /\ addresses(c)[j] \in DOMAIN bundle[c].results

(* C13 (as stated): after a successful conversion the validator adapter      *)
(* queries the liquid balance on the converted account address and rewards   *)
(* and stake on the operator address; for every combination of answers the   *)
(* address is a success iff the liquid query succeeded, or the reward query  *)
(* succeeded, or the staked amount is > 0; the recorded total is             *)
(* liquid + staked + validator_rewards.                                      *)
C13_ValidatorAnySignal ==
    LET c == "validator_stakes"
    IN  \A i \in DoneTasks(c) :
            LET a == addresses(c)[i]
                an == answers[c][i]
                signal == LiquidSucceeded(an[2]) \/ RewardSucceeded(an[3])
                            \/ StakedUpokt(an[4]) > 0
            IN  ~ConversionFailed(an[1]) =>
                    /\ calls[c][i][2] = BankBalances("account_address")
                    /\ calls[c][i][3].on = "address" /\ calls[c][i][4].on = "address"
                    /\ a \in DOMAIN results[c] <=> signal
                    /\ a \in FailedAddresses(failed[c]) <=> ~signal
                    /\ a \in DOMAIN results[c] =>
                            /\ results[c][a].liquid = LiquidUpokt(an[2])
                            /\ results[c][a].staked = StakedUpokt(an[4])
                            /\ results[c][a].validator_rewards = RewardUpokt(an[3])
                            /\ results[c][a].total =
                                    LiquidUpokt(an[2]) + StakedUpokt(an[4])
                                        + RewardUpokt(an[3])

-----------------------------------------------------------------------------
(* the tasks whose address is recorded as a success, over all categories *)
SuccessTasks ==
    {x \in CatSet \X (1..MaxTotal) :
        /\ x[2] \in DoneTasks(x[1])
        /\ addresses(x[1])[x[2]] \in DOMAIN results[x[1]]}

(* the amounts the answers to the calls of one task carried *)
AnswerTotal(c, i) == Sum([k \in 1..Len(answers[c][i]) |-> answers[c][i][k].amt])

(* the total of one success record *)
RecordTotal(c, a) == IF c = "liquid" THEN results[c][a] ELSE results[c][a].total

(* C14: the grand total of a run is the sum, over the five categories, of    *)
(* the per-record totals of the addresses recorded as successes, which is    *)
(* the sum of the amounts their queries answered; failed addresses and       *)
(* categories without an address contribute 0.                               *)
C14_GrandTotalSumsSuccesses ==
    (pc = "exit" /\ exit_code = 0) =>
        /\ grand_total =
                Sum([x \in SuccessTasks |-> RecordTotal(x[1], addresses(x[1])[x[2]])])
        /\ grand_total = Sum([x \in SuccessTasks |-> AnswerTotal(x[1], x[2])])

C14_Witness ==
    /\ pc = "exit" /\ exit_code = 0
    /\ treasury_data["liquid"] = <<1>> /\ treasury_data["app_stakes"] = <<2>>
    /\ results["liquid"] = (1 :> ChainLiquid(1))
    /\ results["app_stakes"] =
            (2 :> [liquid |-> ChainLiquid(2), staked |-> ChainStaked(2),
                   total |-> ChainLiquid(2) + ChainStaked(2)])
    /\ grand_total = ChainLiquid(1) + ChainLiquid(2) + ChainStaked(2)

(* the sum of one field over a success map *)
FieldSum(res, name) == Sum([a \in DOMAIN res |-> res[a][name]])

-----------------------------------------------------------------------------
(* the addresses whose adapter call has started and whose outcome is not yet *)
(* recorded                                                                  *)
Unrecorded(c) == {i \in Tasks(c) : wstate[c][i] \in {"querying", "waiting", "counted"}}

(* C16: the pool width is a hard cap per category.  In every state of a      *)
(* fetch of width W >= 1, at most W addresses of the category have their     *)
(* adapter call started and their outcome not yet recorded.                  *)
C16_PoolWidthIsHardCap ==
    \A c \in CatSet :
        (max_workers >= 1 /\ fstate[c] = "running") =>
            Cardinality(Unrecorded(c)) <= max_workers

C16_Witness ==
    \E c \in CatSet :
        /\ fstate[c] = "running"
        /\ Len(addresses(c)) > max_workers
        /\ Cardinality(Unrecorded(c)) = max_workers
        /\ \E i \in Tasks(c) : wstate[c][i] = "pending"
        /\ \E i \in Tasks(c) : wstate[c][i] = "counted"

-----------------------------------------------------------------------------
(* C17 (as stated): every category has its own slot in the orchestrator's    *)
(* pool, so a scheduled fetcher never has to wait for the fetcher of another *)
(* category to finish: no fetcher is still in the queue while every thread   *)
(* of the pool is busy running a fetcher.                                    *)
C17_EveryCategoryHasItsSlot ==
    \A c \in CatSet :
        fstate[c] = "queued" => Cardinality(Busy) < OuterWorkers

-----------------------------------------------------------------------------
NonEmptyCategories(data) == {c \in CatSet : data[c] # <<>>}

Rendered == pc = "exit" /\ exit_code = 0

(* C18: barrier ordering.  A fetcher returns its bundle only when the        *)
(* outcome of every address of its category is recorded; the orchestrator    *)
(* collects a bundle only from a fetcher that returned, and renders only     *)
(* when the bundle of every scheduled category is collected: at that point   *)
(* no query is in flight or still to start in any category.                  *)
C18_BarrierOrdering ==
    /\ \A c \in CatSet :
            fstate[c] = "returned" =>
                /\ \A i \in 1..Len(addresses(c)) : i \in DoneTasks(c)
                /\ Cardinality(DOMAIN bundle[c].results) + Len(bundle[c].failed)
                        = Len(addresses(c))
    /\ \A c \in collected : fstate[c] = "returned"
    /\ (Rendered \/ grand_total >= 0) =>
            /\ collected = Range(futures)
            /\ collected = NonEmptyCategories(treasury_data)
            /\ \A c \in CatSet :
                    /\ fstate[c] \in {"none", "returned"}
                    /\ DoneTasks(c) = Tasks(c)

C18_Witness ==
    /\ Rendered /\ max_workers >= 2
    /\ Cardinality(collected) >= 2
    /\ \E d, e \in collected :
            /\ d # e
            /\ bundle[d].failed # <<>>
            /\ DOMAIN bundle[e].results # {}

(* C19: only categories with at least one address are scheduled.  For every  *)
(* validated dataset a fetcher is submitted for a category iff its list is   *)
(* not empty, an empty category never gets a fetcher, a task or a call, and  *)
(* the result map of a rendered run holds the bundles of exactly the         *)
(* non-empty categories.                                                     *)
C19_OnlyNonEmptyScheduled ==
    (pc # "start" /\ ~BadFile) =>
        /\ Range(futures) = NonEmptyCategories(file.data)
        /\ Len(futures) = Cardinality(NonEmptyCategories(file.data))
        /\ \A c \in CatSet \ NonEmptyCategories(file.data) :
                /\ fstate[c] = "none" /\ c \notin collected
                /\ wstate[c] = <<>> /\ calls[c] = <<>> /\ answers[c] = <<>>
        /\ \A c \in NonEmptyCategories(file.data) : fstate[c] # "none"
        /\ Rendered => collected = NonEmptyCategories(file.data)

C19_Witness ==
    /\ Rendered /\ queries > 0
    /\ Cardinality(collected) = 2
    /\ file.data["liquid"] = <<>> /\ file.data["delegator_stakes"] # <<>>

(* the number of external queries of one adapter run *)
CallCount(c, conversionFailed) ==
    CASE c = "liquid" -> 1
      [] c \in {"app_stakes", "node_stakes", "delegator_stakes"} -> 2
      [] c = "validator_stakes" -> IF conversionFailed THEN 1 ELSE 4

AllTasks == {x \in CatSet \X (1..MaxTotal) : x[2] \in Queried(x[1])}

(* C20: no retry.  Within one fetch the adapter runs once per address and    *)
(* issues each of its external queries at most once: 1 call for liquid, 2    *)
(* for app, node and delegator, 4 for a validator (1 when the conversion     *)
(* failed), whatever the calls answered; the calls and the result of an      *)
(* address never change once its adapter has run, and an address in the      *)
(* failure list stays there, out of the success map, until the fetch         *)
(* returns.                                                                  *)
C20_NoRetry ==
    /\ [](\A c \in CatSet :
            /\ \A i \in Queried(c) :
                    /\ Len(calls[c][i])
                            = CallCount(c, ConversionFailed(answers[c][i][1]))
                    /\ Len(answers[c][i]) = Len(calls[c][i])
                    /\ \A j, k \in 1..Len(calls[c][i]) :
                            calls[c][i][j] = calls[c][i][k] => j = k
            /\ queries = Sum([x \in AllTasks |-> Len(calls[x[1]][x[2]])])
            /\ fstate[c] = "returned" => DOMAIN calls[c] = 1..Len(addresses(c)))
    /\ [][\A c \in CatSet :
            /\ \A i \in Queried(c) :
                    /\ calls'[c][i] = calls[c][i]
                    /\ answers'[c][i] = answers[c][i]
                    /\ wres'[c][i] = wres[c][i]
            /\ \A k \in 1..Len(failed[c]) :
                    /\ k <= Len(failed'[c]) /\ failed'[c][k] = failed[c][k]
                    /\ failed[c][k][1] \notin DOMAIN results'[c]]_vars

C20_Witness ==
    /\ Rendered
    /\ \E i \in DoneTasks("validator_stakes") :
            /\ Len(calls["validator_stakes"][i]) = 4
            /\ answers["validator_stakes"][i][2].kind = "timeout"
    /\ \E c \in CatSet :
            /\ Len(addresses(c)) >= 2
            /\ Len(bundle[c].failed) >= 1

-----------------------------------------------------------------------------
(* C21: a dataset whose lists hold no repeated address and share no address  *)
(* is accepted and returned unchanged: the run goes on with the same five    *)
(* lists, the same addresses in the same order, and nothing is reported.     *)
C21_AcceptedUnchanged ==
    (pc # "start" /\ file.kind = "object" /\ ~InvalidDataset(file.data)) =>
        /\ treasury_data = file.data
        /\ \A c \in CatSet : \A i \in 1..Len(file.data[c]) :
                addresses(c)[i] = file.data[c][i]
        /\ report = NoReport
        /\ (pc = "exit" /\ exit_code = 1) => \E c \in CatSet : fstate[c] = "raised"

C21_Witness ==
    /\ pc = "collect" /\ queries > 0
    /\ \E c \in CatSet : file.data[c] = <<1, 2>> /\ treasury_data[c] = <<1, 2>>

-----------------------------------------------------------------------------
(* the answer is exit code 0 with JSON that holds the expected field *)
WellFormed(r) == r.kind = "ok"

(* C22 (as stated): get_liquid_balance reports a success, with the amount of *)
(* the answer, only for a well-formed answer; after a timeout, a non-zero    *)
(* exit, output that is not JSON or JSON without the expected field the      *)
(* address is a failure with amount 0 and a reason.                          *)
C22_LiquidFailsUnlessWellFormed ==
    \A i \in DoneTasks("liquid") :
        LET a == addresses("liquid")[i]
            lr == answers["liquid"][i][1]
        IN  IF WellFormed(lr)
            THEN /\ a \in DOMAIN results["liquid"]
                 /\ results["liquid"][a] = lr.amt
            ELSE /\ a \notin DOMAIN results["liquid"]
                 /\ \E k \in 1..Len(failed["liquid"]) :
                        failed["liquid"][k][1] = a /\ failed["liquid"][k][2] # ""
                 /\ wres["liquid"][i].liquid = 0

(* the file with every missing key added as an empty list *)
Completed(f) ==
    JsonFile(f.data, [c \in CatSet |-> IF f.shape[c] = "absent" THEN "list" ELSE f.shape[c]])

MissingKeys(f) == {c \in CatSet : f.shape[c] = "absent"}

(* C23: all five keys are optional.  A file in which keys are missing loads   *)
(* as the same file with those keys present and empty; no fetcher is created  *)
(* for a missing category, nothing is queried for it, and the remaining       *)
(* categories are validated, scheduled and queried as usual.                  *)
C23_EveryKeyIsOptional ==
    LET loaded == load_treasury_addresses(file)
    IN  /\ loaded = load_treasury_addresses(Completed(file))
        /\ pc # "start" =>
              /\ (loaded.exit = 0) <=> (pc # "exit" \/ exit_code = 0)
              /\ loaded.exit = 0 =>
                    /\ treasury_data = file.data
                    /\ Range(futures) = NonEmptyCategories(file.data)
                    /\ \A c \in MissingKeys(file) :
                          /\ fstate[c] = "none" /\ c \notin collected
                          /\ wstate[c] = <<>> /\ calls[c] = <<>>
                          /\ results[c] = <<>> /\ failed[c] = <<>>
                    /\ Rendered =>
                          \A c \in NonEmptyCategories(file.data) :
                              DOMAIN bundle[c].results \cup FailedAddresses(bundle[c].failed)
                                  = Range(file.data[c])

C23_Witness ==
    /\ Rendered /\ queries > 0
    /\ file.shape["delegator_stakes"] = "absent" /\ file.shape["liquid"] = "absent"
    /\ Cardinality(MissingKeys(file)) = 3
    /\ \A c \in CatSet : file.shape[c] \in {"absent", "list"}
    /\ Cardinality(collected) = 2

(* C29 (as stated): a file in which any of the five keys holds a value that  *)
(* is not a list is rejected: the command exits with code 1 and no query was *)
(* issued, for every key alike.                                              *)
C29_NonListIsRejected ==
    (pc # "start" /\ NonListKeys(file.shape) # {}) =>
        /\ pc = "exit" /\ exit_code = 1
        /\ queries = 0
        /\ \A c \in CatSet : fstate[c] = "none"

(* the part of C29 the code keeps: the four keys of the structure check *)
C29_CheckedKeysAreRejected ==
    (pc # "start" /\ NonListKeys(file.shape) \cap CheckedKeys # {}) =>
        /\ pc = "exit" /\ exit_code = 1
        /\ queries = 0
        /\ \A c \in CatSet : fstate[c] = "none"

-----------------------------------------------------------------------------
(* Python floats.  upokt / 1_000_000 is a true division: its result is the   *)
(* IEEE 754 double nearest to the quotient, and sum() adds doubles, each sum *)
(* rounded to the nearest double (ties to even).  A natural number is a      *)
(* sequence of bits, most significant first, <<>> for 0; a double is         *)
(* [m, e], the number m * 2^e with m of exactly Prec bits, or Zero.          *)

Prec == 53              \* bits of the significand of a double
Million == 1000000      \* upokt per POKT

Zeros(n) == [i \in 1..n |-> 0]

(* without the leading zeros *)
Strip(b) ==
    LET ones == {i \in 1..Len(b) : b[i] = 1}
    IN  IF ones = {} THEN <<>>
        ELSE SubSeq(b, CHOOSE i \in ones : \A j \in ones : i <= j, Len(b))

(* the bits of a natural below 2^31, most significant first *)
NatBits(n) ==
    LET len == Cardinality({l \in 0..30 : 2^l <= n})
    IN  [i \in 1..len |-> (n \div 2^(len - i)) % 2]

(* the natural a sequence of bits stands for, by halves *)
RECURSIVE BitsNat(_)
BitsNat(b) ==
    IF b = <<>> THEN 0
    ELSE IF Len(b) = 1 THEN b[1]
    ELSE LET h == Len(b) \div 2
         IN  BitsNat(SubSeq(b, 1, h)) * 2^(Len(b) - h) + BitsNat(SubSeq(b, h + 1, Len(b)))

PadLeft(b, n) == Zeros(n - Len(b)) \o b

(* x + y on naturals: position i receives a carry when a position below it  *)
(* generates one and every position in between passes it on                  *)
AddBits(x, y) ==
    LET n == (IF Len(x) > Len(y) THEN Len(x) ELSE Len(y)) + 1
        a == PadLeft(x, n)
        b == PadLeft(y, n)
        carry(i) == \E j \in (i + 1)..n :
                        /\ a[j] = 1 /\ b[j] = 1
                        /\ \A k \in (i + 1)..(j - 1) : a[k] # b[k]
    IN  Strip([i \in 1..n |-> (a[i] + b[i] + (IF carry(i) THEN 1 ELSE 0)) % 2])

Chunk == 10             \* bits handled in one step on machine integers

(* the j-th group of Chunk bits of a, counted from the low end, as a number; *)
(* Len(a) is a multiple of Chunk                                             *)
Limb(a, j) == BitsNat(SubSeq(a, Len(a) - (j + 1) * Chunk + 1, Len(a) - j * Chunk))

(* a * k from group j of a upwards, c being what the groups below carry in *)
RECURSIVE MulLimbs(_, _, _, _)
MulLimbs(a, k, j, c) ==
    IF j * Chunk >= Len(a) THEN NatBits(c)
    ELSE LET s == Limb(a, j) * k + c
         IN  MulLimbs(a, k, j + 1, s \div 2^Chunk) \o PadLeft(NatBits(s % 2^Chunk), Chunk)

(* x * k for a natural x and an integer k below 2^20, group by group *)
MulSmall(x, k) ==
    Strip(MulLimbs(PadLeft(x, ((Len(x) + Chunk - 1) \div Chunk) * Chunk), k, 0, 0))

(* the first k * Chunk bits after the binary point of r / d, for r < d *)
RECURSIVE FracBits(_, _, _)
FracBits(r, d, k) ==
    IF k = 0 THEN <<>>
    ELSE PadLeft(NatBits((r * 2^Chunk) \div d), Chunk)
            \o FracBits((r * 2^Chunk) % d, d, k - 1)

(* what is left of r / d after those bits *)
RECURSIVE FracRem(_, _, _)
FracRem(r, d, k) == IF k = 0 THEN r ELSE FracRem((r * 2^Chunk) % d, d, k - 1)

Zero == [m |-> <<>>, e |-> 0]

(* the double nearest to bits * 2^e (+ something below the last bit when    *)
(* sticky), ties to even                                                     *)
RoundTo(bits, e, sticky) ==
    LET b == Strip(bits)
        n == Len(b)
    IN  IF n = 0 THEN Zero
        ELSE IF n <= Prec THEN [m |-> b \o Zeros(Prec - n), e |-> e - (Prec - n)]
        ELSE LET kept == SubSeq(b, 1, Prec)
                 guard == b[Prec + 1]
                 rest == sticky \/ \E i \in (Prec + 2)..n : b[i] = 1
                 up == guard = 1 /\ (rest \/ kept[Prec] = 1)
                 m1 == IF up THEN AddBits(kept, <<1>>) ELSE kept
             IN  IF Len(m1) > Prec
                 THEN [m |-> SubSeq(m1, 1, Prec), e |-> e + (n - Prec) + 1]
                 ELSE [m |-> m1, e |-> e + (n - Prec)]

(* n / d on Python ints: the correctly rounded quotient *)
TrueDiv(n, d) ==
    LET k == (Prec + 1 + Len(NatBits(d))) \div Chunk + 1
    IN  RoundTo(NatBits(n \div d) \o FracBits(n % d, d, k), 0 - k * Chunk,
                FracRem(n % d, d, k) # 0)

(* x + y on doubles *)
FAdd(x, y) ==
    IF x = Zero THEN y
    ELSE IF y = Zero THEN x
    ELSE LET e == IF x.e < y.e THEN x.e ELSE y.e
         IN  RoundTo(AddBits(x.m \o Zeros(x.e - e), y.m \o Zeros(y.e - e)), e, FALSE)

(* sum(values): 0 + v1 + v2 + ..., left to right *)
RECURSIVE FSum(_)
FSum(values) ==
    IF values = <<>> THEN Zero
    ELSE FAdd(FSum(SubSeq(values, 1, Len(values) - 1)), values[Len(values)])

(* the integer nearest to x * k, ties to even: what a decimal rendering of  *)
(* x with log10(k) fractional digits shows, as a number of units 1/k        *)
Scaled(x, k) ==
    IF x = Zero THEN 0
    ELSE LET p == MulSmall(x.m, k)
             f == 0 - x.e
             n == Len(p)
             whole == IF n > f THEN SubSeq(p, 1, n - f) ELSE <<>>
             frac == IF n > f THEN SubSeq(p, n - f + 1, n) ELSE PadLeft(p, f)
             w == BitsNat(whole)
             half == frac # <<>> /\ frac[1] = 1
             more == \E i \in 2..Len(frac) : frac[i] = 1
         IN  IF x.e >= 0 THEN BitsNat(p \o Zeros(x.e))
             ELSE IF half /\ (more \/ w % 2 = 1) THEN w + 1 ELSE w

(* f"{x:,.2f}": the number of hundredths shown *)
Format2(x) == Scaled(x, 100)

(* the amount a double carries at 6 fractional digits, in millionths *)
Micro(x) == Scaled(x, Million)

(* upokt / 1_000_000 as the code computes it *)
Pokt(upokt) == TrueDiv(upokt, Million)

(* The fetchers above carry an amount as its exact number of millionths of  *)
(* a POKT; the double the code holds for v millionths is Pokt(v).  A liquid *)
(* fetch over NumAddr addresses, whose balances the chain reports among     *)
(* Amounts, one worker or one worker per address.                            *)

NumAddr == 3        \* addresses of the liquid list of a numeric run

Amounts == {1, 2500, 5000, 7500, Million}

NumericFile ==
    JsonFile([NoData EXCEPT !["liquid"] = [i \in 1..NumAddr |-> i]], ListShape)

NumericRuns == AdapterRunsOver("liquid", {Response("ok", amt, "") : amt \in Amounts}, {}, {}, {})

NumericTask(c, i) == QueryWith(c, i, NumericRuns)

InitNumeric == InitFrom({NumericFile}, {1, NumAddr})

NextNumeric ==
    \/ TreasuryBegin
    \/ \E c \in CatSet : StartFetcher(c)
    \/ \E c \in CatSet : \E i \in 1..NumAddr : StartTask(c, i)
    \/ \E i \in 1..NumAddr : NumericTask("liquid", i)
    \/ \E c \in CatSet : \E i \in 1..NumAddr : CountTask(c, i)
    \/ \E c \in CatSet : \E i \in 1..NumAddr : RecordTask(c, i)
    \/ \E c \in CatSet : ReturnFetcher(c)
    \/ CollectBundle
    \/ Render

SpecNumeric == InitNumeric /\ [][NextNumeric]_vars

(* results.values() of the liquid fetcher: the doubles, in insertion order *)
LiquidValues == [k \in 1..Len(inserted["liquid"]) |-> Pokt(results["liquid"][inserted["liquid"][k]])]

(* 'total_balance': sum(results.values()) *)
LiquidTotal == FSum(LiquidValues)

(* the same balances summed in the order of the address list *)
LiquidTotalInListOrder ==
    LET ok == {i \in 1..Len(addresses("liquid")) : addresses("liquid")[i] \in DOMAIN results["liquid"]}
        nth(k) == CHOOSE i \in ok : Cardinality({j \in ok : j < i}) = k - 1
    IN  FSum([k \in 1..Cardinality(ok) |-> Pokt(results["liquid"][addresses("liquid")[nth(k)]])])

One == [m |-> <<1>> \o Zeros(Prec - 1), e |-> 1 - Prec]

(* the upokt amount pocketd answered for the i-th liquid address *)
LiquidAnswer(i) == answers["liquid"][i][1].amt

(* the part of C25 about one amount: the double of an amount carries its 6   *)
(* fractional digits; 1_000_000 upokt is exactly 1.0, shown as 1.00; 1 upokt *)
(* is 0.000001, shown as 0.00                                                *)
C25_SixDigitsKept ==
    fstate["liquid"] = "returned" =>
        \A i \in Tasks("liquid") :
            LET x == Pokt(LiquidAnswer(i))
            IN  /\ Micro(x) = LiquidAnswer(i)
                /\ LiquidAnswer(i) = Million => x = One /\ Format2(x) = 100
                /\ LiquidAnswer(i) = 1 => Micro(x) = 1 /\ Format2(x) = 0

(* C25 (as stated): the conversion divides the integer amount by 1,000,000   *)
(* without losing any of the 6 fractional digits, 1_000_000 is exactly 1.00, *)
(* 1 is 0.000001 and is shown as 0.00, and the sum of the converted amounts  *)
(* is the conversion of the sum of the integer amounts.                      *)
C25_SumOfConvertedIsConvertedSum ==
    fstate["liquid"] = "returned" =>
        /\ \A i \in Tasks("liquid") :
            LET x == Pokt(LiquidAnswer(i))
            IN  /\ Micro(x) = LiquidAnswer(i)
                /\ LiquidAnswer(i) = Million => x = One /\ Format2(x) = 100
                /\ LiquidAnswer(i) = 1 => Micro(x) = 1 /\ Format2(x) = 0
        /\ LiquidTotal = Pokt(Sum([i \in Tasks("liquid") |-> LiquidAnswer(i)]))

(* the same with both sides as the report shows them, at 2 decimals *)
C25_ShownSumIsShownConvertedSum ==
    fstate["liquid"] = "returned" =>
        Format2(LiquidTotal) = Format2(Pokt(Sum([i \in Tasks("liquid") |-> LiquidAnswer(i)])))

(* what a fetch of category c has to return for the address list and the     *)
(* values its adapter returned, whatever the pool width and the interleaving *)
ExpectedResults(c) ==
    LET ok == {i \in Tasks(c) : wres[c][i].success}
    IN  [a \in {addresses(c)[i] : i \in ok} |->
            RecordOf(c, wres[c][CHOOSE i \in ok : addresses(c)[i] = a])]

ExpectedFailures(c) ==
    {<<addresses(c)[i], wres[c][i].error>> : i \in {j \in Tasks(c) : ~wres[c][j].success}}

(* the part of C24 about the outcomes: the success map and the set of        *)
(* failures a fetcher returns are a function of the address list and of the  *)
(* adapter's return values alone, and so are the totals as exact amounts     *)
C24_OutcomesScheduleIndependent ==
    \A c \in CatSet :
        fstate[c] = "returned" =>
            /\ bundle[c].results = ExpectedResults(c)
            /\ Range(bundle[c].failed) = ExpectedFailures(c)
            /\ Len(bundle[c].failed) = Cardinality(ExpectedFailures(c))
            /\ bundle[c] = BundleOf(c, ExpectedResults(c), bundle[c].failed)

C24_ShownTotalScheduleIndependent ==
    fstate["liquid"] = "returned" => Format2(LiquidTotal) = Format2(LiquidTotalInListOrder)

(* two workers of one pool recorded their failures in the inverse order of   *)
(* submission                                                                *)
C24_Witness ==
    \E c \in CatSet :
        /\ fstate[c] = "returned" /\ max_workers = 2
        /\ Len(bundle[c].failed) = 2
        /\ bundle[c].failed[1][1] = addresses(c)[2]
        /\ bundle[c].failed[2][1] = addresses(c)[1]

(* a step of the worker of task i of category c inside the lock *)
RecordStep(c, i) ==
    /\ i \in Tasks(c)
    /\ wstate[c][i] \in {"waiting", "counted"}
    /\ wstate'[c][i] # wstate[c][i]

(* C26: each worker owns exactly one outcome slot.  The steps in which the   *)
(* worker of address a counts and records its outcome change only a's entry  *)
(* (added to the success map or appended to the failure list, never both)    *)
(* and the counter of the category; the entries of the other addresses, the  *)
(* state of every other category and the address lists stay as they are.     *)
C26_RecordChangesOwnSlotOnly ==
    [][\A c \in CatSet : \A i \in 1..MaxTotal :
          RecordStep(c, i) =>
              LET a == addresses(c)[i]
              IN  /\ a \notin DOMAIN results[c] /\ a \notin FailedAddresses(failed[c])
                  /\ DOMAIN results'[c] \subseteq DOMAIN results[c] \cup {a}
                  /\ \A b \in DOMAIN results[c] :
                        b \in DOMAIN results'[c] /\ results'[c][b] = results[c][b]
                  /\ \/ failed'[c] = failed[c]
                     \/ /\ Len(failed'[c]) = Len(failed[c]) + 1
                        /\ SubSeq(failed'[c], 1, Len(failed[c])) = failed[c]
                        /\ failed'[c][Len(failed'[c])][1] = a
                        /\ results'[c] = results[c]
                  /\ completed_count'[c] \in {completed_count[c], completed_count[c] + 1}
                  /\ \A j \in Tasks(c) \ {i} : wstate'[c][j] = wstate[c][j]
                  /\ \A d \in CatSet \ {c} :
                        /\ results'[d] = results[d] /\ failed'[d] = failed[d]
                        /\ completed_count'[d] = completed_count[d]
                        /\ wstate'[d] = wstate[d] /\ fstate'[d] = fstate[d]
                        /\ bundle'[d] = bundle[d]
                  /\ treasury_data' = treasury_data /\ file' = file]_vars

(* two outcomes of one category are recorded, by two concurrent workers, and *)
(* another category has recorded one too                                     *)
C26_Witness ==
    \E c \in CatSet :
        /\ max_workers >= 2
        /\ Len(failed[c]) = 2 /\ Cardinality(DoneTasks(c)) = 2

-----------------------------------------------------------------------------
(* Runs under fair scheduling.  The first k categories hold one address      *)
(* each, for k from 0 to 5 (five fetchers for the four threads of the outer  *)
(* pool), with one worker; or one category holds two addresses, with every   *)
(* width from 1 on.  Every call is answered or hits its timeout.             *)

PrefixFiles ==
    {JsonFile([c \in CatSet |-> IF CatIndex(c) <= k THEN <<CatIndex(c)>> ELSE <<>>],
              ListShape) : k \in 0..Len(Cats)}

PairFiles == {JsonFile([NoData EXCEPT ![c] = <<1, 2>>], ListShape) : c \in CatSet}

InitFair == InitFrom(PrefixFiles, {1}) \/ InitFrom(PairFiles, 1..MaxWorkers)

MainThread == TreasuryBegin \/ CollectBundle \/ Render

FetcherThread(c) == StartFetcher(c) \/ ReturnFetcher(c)

WorkerThread(c, i) ==
    StartTask(c, i) \/ AnsweredTask(c, i) \/ CountTask(c, i) \/ RecordTask(c, i)

NextFair ==
    \/ MainThread
    \/ \E c \in CatSet : FetcherThread(c)
    \/ \E c \in CatSet : \E i \in 1..2 : WorkerThread(c, i)

(* the operating system keeps running some thread that can take a step: the *)
(* weakest form of fair scheduling                                           *)
Fairness == WF_vars(NextFair)

SpecFair == InitFair /\ [][NextFair]_vars /\ Fairness

(* every scheduled fetcher returned with the outcome of each of its addresses *)
(* recorded, and no lock is held                                             *)
AllCompleted ==
    \A c \in CatSet :
        /\ fstate[c] = (IF file.data[c] # <<>> THEN "returned" ELSE "none")
        /\ DoneTasks(c) = 1..Len(file.data[c])
        /\ lock[c] = 0
        /\ DOMAIN bundle[c].results \cup FailedAddresses(bundle[c].failed) = Range(file.data[c])

(* C27: termination without deadlock.  Under fair scheduling, with every     *)
(* call answered or timed out, a run over a validated dataset with a pool    *)
(* width of at least 1 reaches the point where every query is completed and  *)
(* the report is rendered, for 0 to 5 non-empty categories; a queued fetcher *)
(* gets a thread of the outer pool, and a worker that waits for the category *)
(* lock gets it and records its outcome.                                     *)
C27_TerminatesUnderFairness == <>(Rendered /\ AllCompleted)

(* five categories were fetched through the four threads of the outer pool *)
C27_Witness ==
    /\ Rendered
    /\ Cardinality(collected) = Len(Cats)
    /\ Len(Cats) > OuterWorkers

-----------------------------------------------------------------------------
(* treasury-tools liquid-balance, app-stakes, node-stakes, validator-stakes  *)
(* and delegator-stakes: one loop over the address list, calling the same    *)
(* adapter as the fetcher of the category; rets[i] is what the adapter       *)
(* returns for the i-th address                                              *)

Indices(n) == [i \in 1..n |-> i]

SequentialCommand(c, list, rets) ==
    LET succeeded(i) == rets[i].success
        notSucceeded(i) == ~rets[i].success
        okAt == SelectSeq(Indices(Len(list)), succeeded)
        koAt == SelectSeq(Indices(Len(list)), notSucceeded)
        field(name) == Sum([k \in 1..Len(okAt) |-> rets[okAt[k]][name]])
    IN  [successful_queries |-> [k \in 1..Len(okAt) |-> <<list[okAt[k]], RecordOf(c, rets[okAt[k]])>>],
         failed_addresses |-> [k \in 1..Len(koAt) |-> <<list[koAt[k]], rets[koAt[k]].error>>],
         total_liquid |-> field("liquid"),
         total_staked |-> field("staked"),
         total_rewards |-> field("rewards"),
         grand_total |-> field("liquid") + field("staked") + field("rewards")]

(* the totals of a bundle, under the names of the sequential command *)
BundleTotals(c, b) ==
    CASE c = "liquid" ->
            [total_liquid |-> b.total_balance, total_staked |-> 0, total_rewards |-> 0,
             grand_total |-> b.total_balance]
      [] c \in {"app_stakes", "node_stakes"} ->
            [total_liquid |-> b.total_liquid, total_staked |-> b.total_staked,
             total_rewards |-> 0, grand_total |-> b.total_combined]
      [] c = "delegator_stakes" ->
            [total_liquid |-> b.total_liquid, total_staked |-> 0,
             total_rewards |-> b.total_delegator_rewards, grand_total |-> b.total_combined]
      [] c = "validator_stakes" ->
            [total_liquid |-> b.total_liquid, total_staked |-> b.total_staked,
             total_rewards |-> b.total_validator_rewards, grand_total |-> b.total_combined]

(* the successes, the failures and the totals as exact amounts are those of  *)
(* the sequential command over the same list and the same adapter results    *)
SameOutcomes(c) ==
    LET seq == SequentialCommand(c, addresses(c), wres[c])
    IN  /\ DOMAIN bundle[c].results = {seq.successful_queries[k][1] : k \in DOMAIN seq.successful_queries}
        /\ \A k \in DOMAIN seq.successful_queries :
              bundle[c].results[seq.successful_queries[k][1]] = seq.successful_queries[k][2]
        /\ Range(bundle[c].failed) = Range(seq.failed_addresses)
        /\ Len(bundle[c].failed) = Len(seq.failed_addresses)
        /\ \A name \in {"total_liquid", "total_staked", "total_rewards", "grand_total"} :
              BundleTotals(c, bundle[c])[name] = seq[name]

(* the part of C28 that does not depend on the arithmetic of the totals *)
C28_OutcomesRefineSequential ==
    \A c \in CatSet : fstate[c] = "returned" => SameOutcomes(c)

(* liquid-balance: total_balance = 0.0, then total_balance += balance for    *)
(* each success, in the order of the list                                    *)
SequentialLiquidTotal ==
    LET seq == SequentialCommand("liquid", addresses("liquid"), wres["liquid"])
    IN  FSum([k \in DOMAIN seq.successful_queries |-> Pokt(seq.successful_queries[k][2])])

(* C28 (as stated): the parallel fetchers refine the sequential commands.    *)
(* For the same list of distinct addresses and the same adapter results the  *)
(* fetcher returns the successes of the sequential loop with the same        *)
(* fields, its failures with the same reasons, and the same totals: for the  *)
(* liquid category, the total the fetcher computes is the total the          *)
(* liquid-balance command computes.                                          *)
C28_ParallelRefinesSequential ==
    \A c \in CatSet :
        fstate[c] = "returned" =>
            /\ SameOutcomes(c)
            /\ c = "liquid" => LiquidTotal = SequentialLiquidTotal

(* the same total as both reports show it, at 2 decimals *)
C28_ShownTotalRefinesSequential ==
    fstate["liquid"] = "returned" => Format2(LiquidTotal) = Format2(SequentialLiquidTotal)

-----------------------------------------------------------------------------
(* C30 (as stated): for every worker count the command accepts, 0 included,  *)
(* a run over a validated dataset with at least one address ends with the    *)
(* rendered report, every address having exactly one outcome; the worker     *)
(* count only changes the degree of parallelism.                             *)
C30_AnyWorkerCountCompletes ==
    (pc = "exit" /\ ~BadFile /\ NonEmptyCategories(file.data) # {}) =>
        /\ Rendered
        /\ \A c \in NonEmptyCategories(file.data) :
              /\ fstate[c] = "returned"
              /\ DOMAIN bundle[c].results \cap FailedAddresses(bundle[c].failed) = {}
              /\ DOMAIN bundle[c].results \cup FailedAddresses(bundle[c].failed)
                    = Range(file.data[c])

(* the part of C30 the code keeps: the same for the worker counts from 1 on *)
C30_PositiveWorkerCountCompletes ==
    (pc = "exit" /\ ~BadFile /\ NonEmptyCategories(file.data) # {} /\ max_workers >= 1) =>
        /\ Rendered
        /\ \A c \in NonEmptyCategories(file.data) :
              /\ fstate[c] = "returned"
              /\ DOMAIN bundle[c].results \cap FailedAddresses(bundle[c].failed) = {}
              /\ DOMAIN bundle[c].results \cup FailedAddresses(bundle[c].failed)
                    = Range(file.data[c])

=============================================================================
